---- MODULE Spec2Model ----
(***************************************************************************)
(* Model of httpd-epoll.c: a single-threaded, edge-triggered epoll HTTP    *)
(* server.  The state is the kernel objects the program drives (listen     *)
(* queue, descriptor table, epoll interest and ready lists, per-connection *)
(* byte streams) and the position of main's event loop.  One action per    *)
(* system-visible step: epoll_wait returning, and the dispatch of one      *)
(* event of the returned batch (the whole handler, with every call it      *)
(* makes).  The clients are the environment: connect, send, close, abort.  *)
(*                                                                         *)
(* Bytes are one-character strings; a request or a body is a sequence of   *)
(* bytes.  A C string is the sequence of bytes before its terminating NUL. *)
(*                                                                         *)
(* Two smaller machines share the module: the startup of the three         *)
(* executables (main and srv_init of httpd-epoll.c, http-server.c and      *)
(* httpd.c, one action per call that can fail), and the keep-alive         *)
(* connection handler cli_conn that the forked child of httpd.c runs.      *)
(***************************************************************************)
EXTENDS Integers, Sequences, FiniteSets, TLC

\* ------------------------------------------------------------------------
\* Bounds of the model
\* ------------------------------------------------------------------------

\* Number of simulated clients (each makes at most one connection).
NClients == 3

\* How many of them take part where requests are sent piece by piece and
\* connections are aborted.
NBusy == 2

\* A client's send may end after any of the first MaxCut bytes of its
\* request, at the server's read limit, or at the end of the request.
MaxCut == 5

\* Requests a client of the keep-alive server sends on its connection.
MaxSends == 3

\* ------------------------------------------------------------------------
\* Program constants
\* ------------------------------------------------------------------------

MAX_EVENTS == 64

BUFFER_SIZE == 4096

\* sizeof(req->method), sizeof(req->url)
MethodSize == 16

UrlSize == 1024

\* httpd.c
REQ_BUFSIZE == 8192

\* Descriptors: 0..2 are the standard streams, socket() in srv_init returns
\* the lowest free one, epoll_create1 the next.
server_fd == 3

epoll_fd == 4

Clients == 1..NClients

Busy == 1..NBusy

\* accept() returns the lowest free descriptor above those already open.
ClientFds == (epoll_fd + 1)..(epoll_fd + NClients)

\* ------------------------------------------------------------------------
\* Byte strings
\* ------------------------------------------------------------------------

Take(s, n) == SubSeq(s, 1, IF n < Len(s) THEN n ELSE Len(s))

Drop(s, n) == SubSeq(s, n + 1, Len(s))

\* The for-loops of parse_http: the first index >= i whose byte is in stops,
\* or Len(s) + 1 (the terminating NUL) when there is none.
RECURSIVE Scan(_, _, _)
Scan(s, i, stops) ==
    IF i > Len(s) \/ s[i] \in stops THEN i ELSE Scan(s, i + 1, stops)

\* snprintf's %d of a non-negative int: its decimal digits.
Digit(d) ==
    CASE d = 0 -> "0" [] d = 1 -> "1" [] d = 2 -> "2" [] d = 3 -> "3"
      [] d = 4 -> "4" [] d = 5 -> "5" [] d = 6 -> "6" [] d = 7 -> "7"
      [] d = 8 -> "8" [] d = 9 -> "9"

RECURSIVE Dec(_)
Dec(n) == IF n < 10 THEN <<Digit(n)>> ELSE Append(Dec(n \div 10), Digit(n % 10))

DigitValue(ch) == CHOOSE d \in 0..9 : Digit(d) = ch

IsDigit(ch) == \E d \in 0..9 : Digit(d) = ch

\* atoi's digit loop from index i on, acc being the value so far.
RECURSIVE AtoiDigits(_, _, _)
AtoiDigits(s, i, acc) ==
    IF i > Len(s) \/ ~IsDigit(s[i]) THEN acc
    ELSE AtoiDigits(s, i + 1, 10 * acc + DigitValue(s[i]))

\* atoi: leading white space is skipped, one sign is taken, then the digits
\* up to the first byte that is not one; 0 when there is no digit.
atoi(s) ==
    LET White == {" ", "\t", "\n", "\r"}
        RECURSIVE SkipWhite(_)
        SkipWhite(i) == IF i <= Len(s) /\ s[i] \in White THEN SkipWhite(i + 1) ELSE i
        b == SkipWhite(1)
    IN  IF b <= Len(s) /\ s[b] = "-" THEN 0 - AtoiDigits(s, b + 1, 0)
        ELSE IF b <= Len(s) /\ s[b] = "+" THEN AtoiDigits(s, b + 1, 0)
        ELSE AtoiDigits(s, b, 0)

\* htons: the value converted to uint16_t.
htons(n) == n % 65536

\* ------------------------------------------------------------------------
\* The requests the clients send
\* ------------------------------------------------------------------------

ReqRoot ==
    <<"G", "E", "T", " ", "/", " ", "H", "T", "T", "P", "/", "1", ".", "1", "\r", "\n",
      "\r", "\n">>

ReqIndex ==
    <<"G", "E", "T", " ", "/", "i", "n", "d", "e", "x", ".", "h", "t", "m", "l", " ", "H",
      "T", "T", "P", "/", "1", ".", "1", "\r", "\n", "\r", "\n">>

ReqJson ==
    <<"G", "E", "T", " ", "/", "d", "a", "t", "a", ".", "j", "s", "o", "n", " ", "H", "T",
      "T", "P", "/", "1", ".", "1", "\r", "\n", "\r", "\n">>

ReqNope ==
    <<"G", "E", "T", " ", "/", "n", "o", "p", "e", " ", "H", "T", "T", "P", "/", "1", ".",
      "1", "\r", "\n", "\r", "\n">>

\* A target that has a known target as a proper prefix.
ReqPrefix ==
    <<"G", "E", "T", " ", "/", "i", "n", "d", "e", "x", ".", "h", "t", "m", "l", "x", " ",
      "H", "T", "T", "P", "/", "1", ".", "1", "\r", "\n", "\r", "\n">>

ReqPost ==
    <<"P", "O", "S", "T", " ", "/", " ", "H", "T", "T", "P", "/", "1", ".", "1", "\r",
      "\n", "\r", "\n">>

\* A first line with no space, and nothing but the empty line after it.
ReqGarbage ==
    <<"G", "A", "R", "B", "A", "G", "E", "\r", "\n", "\r", "\n">>

\* A first line with no space, followed by a header line.
ReqGarbageHdr ==
    <<"G", "A", "R", "B", "A", "G", "E", "\r", "\n", "H", "o", "s", "t", ":", " ", "x",
      "\r", "\n", "\r", "\n">>

\* A well-formed request whose header pads it beyond the read buffer.
ReqPad ==
    <<"G", "E", "T", " ", "/", " ", "H", "T", "T", "P", "/", "1", ".", "1", "\r", "\n",
      "X", "-", "P", "a", "d", ":", " ">>
    \o [k \in 1..BUFFER_SIZE |-> "a"] \o <<"\r", "\n", "\r", "\n">>

\* A request that ends right after its target.
ReqNoEnd ==
    <<"G", "E", "T", " ", "/", "i", "n", "d", "e", "x", ".", "h", "t", "m", "l">>

Requests ==
    <<ReqRoot, ReqIndex, ReqJson, ReqNope, ReqPrefix, ReqPost, ReqGarbage,
      ReqGarbageHdr, ReqPad, ReqNoEnd>>

ReqIds == 1..Len(Requests)

IdOf(text) == CHOOSE r \in ReqIds : Requests[r] = text

\* The requests sent where several clients run against each other: between
\* them and their cuts they draw each of the four responses.
SharedReqs == {IdOf(ReqJson), IdOf(ReqPost)}

\* Where a send of request r may end.
Cuts(r) ==
    {k \in 1..MaxCut : k < Len(Requests[r])}
      \cup {k \in {BUFFER_SIZE - 1} : k < Len(Requests[r])}
      \cup {Len(Requests[r])}

\* ------------------------------------------------------------------------
\* parse_http
\* ------------------------------------------------------------------------

NULL == [null |-> TRUE]

\* str is the C string handed in; the result is NULL or the httpreq.
parse_http(str) ==
    LET sp == Scan(str, 1, {" "})
        e  == Scan(str, sp + 1, {" ", "\r", "\n"})
    IN  IF sp > Len(str)
        THEN NULL
        ELSE [method |-> Take(SubSeq(str, 1, sp - 1), MethodSize - 1),
              url    |-> Take(SubSeq(str, sp + 1, e - 1), UrlSize - 1)]

\* ------------------------------------------------------------------------
\* http_send_response and handle_request
\* ------------------------------------------------------------------------

BodyHtml ==
    <<"<", "h", "t", "m", "l", ">", "<", "h", "4", ">", "H", "e", "l", "l", "o", " ", "W",
      "o", "r", "l", "d", "!", "!", "<", "/", "h", "4", ">", "<", "/", "h", "t", "m", "l",
      ">">>

BodyJson ==
    <<"{", "\"", "m", "e", "s", "s", "a", "g", "e", "\"", ":", " ", "\"", "H", "e", "l",
      "l", "o", " ", "W", "o", "r", "l", "d", "!", "!", "!", "\"", "}">>

BodyNotFound ==
    <<"F", "i", "l", "e", " ", "n", "o", "t", " ", "f", "o", "u", "n", "d", "!">>

BodyNotAllowed ==
    <<"O", "n", "l", "y", " ", "G", "E", "T", " ", "s", "u", "p", "p", "o", "r", "t", "e",
      "d">>

BodyMalformed ==
    <<"M", "a", "l", "f", "o", "r", "m", "e", "d", " ", "r", "e", "q", "u", "e", "s", "t">>

\* The text snprintf formats into buf: the status line and the header lines
\* (one element per line, one field per conversion), the empty line, then
\* the body's bytes.  Its length stands for snprintf's return value n.
Serialize(code, status, contenttype, body) ==
    <<<<"HTTP/1.1", Dec(code), status>>,
      <<"Content-Type", contenttype>>,
      <<"Content-Length", Dec(Len(body))>>,
      <<"Connection", "close">>,
      <<>>>> \o body

\* ------------------------------------------------------------------------
\* The executables and their command lines
\* ------------------------------------------------------------------------

\* httpd-epoll.c, http-server.c, httpd.c
Programs == {"httpd-epoll", "http-server", "httpd"}

ArgPort == <<"8", "0", "8", "0">>

ArgZero == <<"0">>

ArgWord == <<"a", "b", "c">>

ArgNegative == <<"-", "1">>

ArgEmpty == <<>>

ArgSpaced == <<" ", "+", "8", "0">>

\* argv without argv[0]: no argument, or one of the arguments above.
CommandLines ==
    {<<>>} \cup {<<a>> : a \in {ArgPort, ArgZero, ArgWord, ArgNegative, ArgEmpty, ArgSpaced}}

\* ------------------------------------------------------------------------
\* State
\* ------------------------------------------------------------------------

VARIABLES
    pc,      \* main: "wait" (blocked in epoll_wait), "dispatch", "exited"
    batch,   \* events[0..nevents-1] as returned by the last epoll_wait
    idx,     \* the for-loop's i, counted from 1 (0 when not dispatching)
    werr,    \* errno of the epoll_wait that ended the loop ("none" before)
    lopen,   \* the listening socket is open
    reg,     \* epoll interest list: the registered descriptors
    rdy,     \* epoll ready list, oldest first (edge-triggered)
    fdtab,   \* client descriptor -> the connection it refers to (0: free)
    lq,      \* listen queue: established connections not yet accepted
    cst,     \* client: "idle" or "conn"
    req,     \* client: the request it sends (0 before it connects)
    sent,    \* client: bytes of the request sent so far
    cend,    \* client's end of the stream: "open", "fin" or "rst"
    sst,     \* server's end: "none" (not accepted), "open", "closed"
    sfd,     \* the descriptor accept returned for the connection (0: none)
    rd,      \* bytes the server has read from the connection
    why,     \* how the server came to close the connection
    parsed,  \* results of parse_http on the connection, in order
    sresp,   \* responses written to the connection: [wire, wrote]
    ops,     \* the calls made on the connection's descriptor: [call, ret]
    acc,     \* accept_connections since epoll_wait returned: [took, errno]
    lerr,    \* an error condition is pending on the listening socket
    prog,    \* startup: which of the three executables runs
    argv,    \* startup: argv[1..argc-1], each a byte string
    mpc,     \* startup: the call main is at, "started" or "exited"
    port,    \* startup: main's port (0 before it is assigned)
    sin_port,\* startup: the port handed to bind, 0 before
    listened,\* startup: listen() has succeeded
    failed,  \* startup: the call that failed ("none" when none did)
    exit_status, \* startup: the exit status once mpc = "exited"
    kpc,     \* cli_conn of httpd.c: "none", "read", "returned", "killed"
    keep_alive, \* cli_conn's keep_alive
    kin,     \* requests queued on the socket, not yet read (their ids)
    kend,    \* the client's end of that connection: "open", "fin", "rst"
    ksends,  \* number of requests the client has sent
    klog,    \* one entry per pass of cli_conn's loop that read bytes
    kexit,   \* how cli_conn's loop was left ("none" while it runs)
    kclosed  \* number of close(c) calls cli_conn has made

loopVars == <<pc, batch, idx, werr>>

kernVars == <<lopen, lerr, reg, rdy, fdtab, lq>>

cliVars == <<cst, req, sent, cend>>

srvVars == <<sst, sfd, rd, why, parsed, sresp, ops>>

epollVars == <<loopVars, kernVars, cliVars, srvVars, acc>>

bootVars == <<prog, argv, mpc, port, sin_port, listened, failed, exit_status>>

kaVars == <<kpc, keep_alive, kin, kend, ksends, klog, kexit, kclosed>>

\* What the event loop and its clients never touch.
offVars == <<bootVars, kaVars>>

vars == <<epollVars, offVars>>

\* accept_connections has not run: no connection taken, no errno.
NoAccept == [took |-> <<>>, errno |-> "none"]

\* main of httpd-epoll.c has gone through its startup with a port argument
\* and is about to enter the loop.
Started ==
    /\ prog = "httpd-epoll"
    /\ argv = <<ArgPort>>
    /\ mpc = "started"
    /\ port = atoi(ArgPort)
    /\ sin_port = htons(atoi(ArgPort))
    /\ listened = TRUE
    /\ failed = "none"
    /\ exit_status = 0

\* The loop's variables when main enters the loop.
InitLoop ==
    /\ pc = "wait"
    /\ batch = <<>>
    /\ idx = 0
    /\ werr = "none"
    /\ lopen = TRUE
    /\ lerr = FALSE
    /\ reg = {server_fd}
    /\ rdy = <<>>
    /\ fdtab = [f \in ClientFds |-> 0]
    /\ lq = <<>>
    /\ cst = [c \in Clients |-> "idle"]
    /\ req = [c \in Clients |-> 0]
    /\ sent = [c \in Clients |-> 0]
    /\ cend = [c \in Clients |-> "open"]
    /\ sst = [c \in Clients |-> "none"]
    /\ sfd = [c \in Clients |-> 0]
    /\ rd = [c \in Clients |-> 0]
    /\ why = [c \in Clients |-> "none"]
    /\ parsed = [c \in Clients |-> <<>>]
    /\ sresp = [c \in Clients |-> <<>>]
    /\ ops = [c \in Clients |-> <<>>]
    /\ acc = NoAccept

\* No child of httpd.c is running.
NoChild ==
    /\ kpc = "none"
    /\ keep_alive = 1
    /\ kin = <<>>
    /\ kend = "open"
    /\ ksends = 0
    /\ klog = <<>>
    /\ kexit = "none"
    /\ kclosed = 0

Init == InitLoop /\ Started /\ NoChild

\* ------------------------------------------------------------------------
\* The kernel as the program sees it
\* ------------------------------------------------------------------------

InSeq(s, x) == \E k \in 1..Len(s) : s[k] = x

Without(s, x) == SelectSeq(s, LAMBDA y : y # x)

\* A readiness edge on descriptor f: a registered descriptor is linked at the
\* tail of the ready list unless it is already on it.
Edge(ready, registered, f) ==
    IF f \in registered /\ ~InSeq(ready, f) THEN Append(ready, f) ELSE ready

\* accept() and socket() return the lowest free descriptor.
LowestFree(tab) == CHOOSE f \in ClientFds :
    tab[f] = 0 /\ \A g \in ClientFds : tab[g] = 0 => f <= g

\* A read on connection c would not block: data is queued, or the peer has
\* sent FIN or RST.
Readable(c) == sent[c] > rd[c] \/ cend[c] # "open"

\* The event mask epoll_wait reports for a descriptor on the ready list.
EventsOf(f) ==
    IF f = server_fd
    THEN IF ~lopen THEN {}
         ELSE (IF lq # <<>> THEN {"EPOLLIN"} ELSE {})
                \cup (IF lerr THEN {"EPOLLERR"} ELSE {})
    ELSE IF fdtab[f] = 0 THEN {}
    ELSE (IF Readable(fdtab[f]) THEN {"EPOLLIN"} ELSE {})
           \cup (IF cend[fdtab[f]] = "rst" THEN {"EPOLLERR", "EPOLLHUP"} ELSE {})

\* read(client_fd, buffer, sizeof(buffer) - 1) on connection c: the number of
\* bytes returned, 0 at end of stream, -1 on ECONNRESET or EAGAIN.
ReadResult(c) ==
    IF sent[c] > rd[c]
    THEN IF sent[c] - rd[c] < BUFFER_SIZE - 1 THEN sent[c] - rd[c] ELSE BUFFER_SIZE - 1
    ELSE IF cend[c] = "fin" THEN 0 ELSE -1

\* write(fd, buf, n) on connection c: n, a short count, or -1.  A reset
\* connection takes nothing.
WriteResults(c, n) ==
    IF cend[c] = "rst" THEN {-1} ELSE {n, n - 1, -1}

\* ------------------------------------------------------------------------
\* The server's handlers
\* ------------------------------------------------------------------------

\* An entry of a connection's call log.
Call(name, ret) == [call |-> name, ret |-> ret]

\* The teardown with the two calls in the other order.
Teardown_closefirst == <<Call("close", 0), Call("EPOLL_CTL_DEL", 0)>>

\* The calls of a teardown, in the order the program makes them:
\* epoll_ctl(epoll_fd, EPOLL_CTL_DEL, f, NULL); close(f);
Teardown == <<Call("EPOLL_CTL_DEL", 0), Call("close", 0)>>

\* A teardown that empties the interest list of client descriptors instead
\* of removing f alone.
DelAndClose_all(f, reason) ==
    /\ reg' = reg \ ClientFds
    /\ rdy' = Without(rdy, f)
    /\ fdtab' = [fdtab EXCEPT ![f] = 0]
    /\ sst' = [sst EXCEPT ![fdtab[f]] = "closed"]
    /\ why' = [why EXCEPT ![fdtab[f]] = reason]

\* The effect of that teardown on the open client descriptor f.
DelAndClose(f, reason) ==
    /\ reg' = reg \ {f}
    /\ rdy' = Without(rdy, f)
    /\ fdtab' = [fdtab EXCEPT ![f] = 0]
    /\ sst' = [sst EXCEPT ![fdtab[f]] = "closed"]
    /\ why' = [why EXCEPT ![fdtab[f]] = reason]

\* Formats the response and hands it to one write, whose result is dropped.
http_send_response(c, code, status, contenttype, body) ==
    \E w \in WriteResults(c, Len(Serialize(code, status, contenttype, body))) :
        sresp' = [sresp EXCEPT ![c] =
            Append(@, [wire  |-> Serialize(code, status, contenttype, body),
                       wrote |-> w])]

\* handle_request with the targets compared over the known target's length
\* only (strncmp), so that a longer target with a known prefix is served.
handle_request_prefix(c, request) ==
    LET r == parse_http(request)
        StartsWith(s, t) == Len(s) >= Len(t) /\ SubSeq(s, 1, Len(t)) = t
    IN  /\ parsed' = [parsed EXCEPT ![c] = Append(@, r)]
        /\ IF r = NULL
           THEN http_send_response(c, 400, "Bad Request", "text/plain", BodyMalformed)
           ELSE IF r.method = <<"G", "E", "T">>
           THEN IF \/ StartsWith(r.url,
                                 <<"/", "i", "n", "d", "e", "x", ".", "h", "t", "m", "l">>)
                   \/ r.url = <<"/">>
                THEN http_send_response(c, 200, "OK", "text/html", BodyHtml)
                ELSE IF r.url = <<"/", "d", "a", "t", "a", ".", "j", "s", "o", "n">>
                THEN http_send_response(c, 200, "OK", "application/json", BodyJson)
                ELSE http_send_response(c, 404, "Not Found", "text/plain", BodyNotFound)
           ELSE http_send_response(c, 405, "Method Not Allowed", "text/plain",
                                   BodyNotAllowed)

handle_request(c, request) ==
    LET r == parse_http(request)
    IN  /\ parsed' = [parsed EXCEPT ![c] = Append(@, r)]
        /\ IF r = NULL
           THEN http_send_response(c, 400, "Bad Request", "text/plain", BodyMalformed)
           ELSE IF r.method = <<"G", "E", "T">>
           THEN IF \/ r.url = <<"/", "i", "n", "d", "e", "x", ".", "h", "t", "m", "l">>
                   \/ r.url = <<"/">>
                THEN http_send_response(c, 200, "OK", "text/html", BodyHtml)
                ELSE IF r.url = <<"/", "d", "a", "t", "a", ".", "j", "s", "o", "n">>
                THEN http_send_response(c, 200, "OK", "application/json", BodyJson)
                ELSE http_send_response(c, 404, "Not Found", "text/plain", BodyNotFound)
           ELSE http_send_response(c, 405, "Method Not Allowed", "text/plain",
                                   BodyNotAllowed)

\* handle_client_data returning on end of stream or read error without the
\* EPOLL_CTL_DEL and the close.
handle_client_data_noclose(f) ==
    LET c == fdtab[f]
        n == ReadResult(c)
    IN  IF c = 0
        THEN UNCHANGED <<kernVars, srvVars>>
        ELSE /\ IF n <= 0
                THEN /\ ops' = [ops EXCEPT ![c] = Append(@, Call("read", n))]
                     /\ UNCHANGED <<reg, rdy, fdtab, sst, why, rd, parsed, sresp>>
                ELSE /\ rd' = [rd EXCEPT ![c] = @ + n]
                     /\ handle_request(c, SubSeq(Requests[req[c]], rd[c] + 1, rd[c] + n))
                     /\ DelAndClose(f, "resp")
                     /\ ops' = [ops EXCEPT ![c] =
                            Append(@, Call("read", n))
                              \o <<Call("write", sresp'[c][Len(sresp'[c])].wrote)>>
                              \o Teardown]
             /\ UNCHANGED <<lopen, lerr, lq, sfd>>

\* handle_client_data keeping the connection after the response, as a
\* keep-alive server would.
handle_client_data_keepalive(f) ==
    LET c == fdtab[f]
        n == ReadResult(c)
    IN  IF c = 0
        THEN UNCHANGED <<kernVars, srvVars>>
        ELSE /\ IF n <= 0
                THEN /\ DelAndClose(f, IF n = 0 THEN "eof" ELSE "rderr")
                     /\ ops' = [ops EXCEPT ![c] = Append(@, Call("read", n)) \o Teardown]
                     /\ UNCHANGED <<rd, parsed, sresp>>
                ELSE /\ rd' = [rd EXCEPT ![c] = @ + n]
                     /\ handle_request(c, SubSeq(Requests[req[c]], rd[c] + 1, rd[c] + n))
                     /\ ops' = [ops EXCEPT ![c] =
                            Append(@, Call("read", n))
                              \o <<Call("write", sresp'[c][Len(sresp'[c])].wrote)>>]
                     /\ UNCHANGED <<reg, rdy, fdtab, sst, why>>
             /\ UNCHANGED <<lopen, lerr, lq, sfd>>

\* One read, then either the teardown (nothing read) or the request handled
\* from what that read returned, and the teardown.
handle_client_data(f) ==
    LET c == fdtab[f]
        n == ReadResult(c)
    IN  IF c = 0
        THEN UNCHANGED <<kernVars, srvVars>>
        ELSE /\ IF n <= 0
                THEN /\ DelAndClose(f, IF n = 0 THEN "eof" ELSE "rderr")
                     /\ ops' = [ops EXCEPT ![c] = Append(@, Call("read", n)) \o Teardown]
                     /\ UNCHANGED <<rd, parsed, sresp>>
                ELSE /\ rd' = [rd EXCEPT ![c] = @ + n]
                     /\ handle_request(c, SubSeq(Requests[req[c]], rd[c] + 1, rd[c] + n))
                     /\ DelAndClose(f, "resp")
                     /\ ops' = [ops EXCEPT ![c] =
                            Append(@, Call("read", n))
                              \o <<Call("write", sresp'[c][Len(sresp'[c])].wrote)>>
                              \o Teardown]
             /\ UNCHANGED <<lopen, lerr, lq, sfd>>

\* AcceptOne without the close(client_fd) after a failed EPOLL_CTL_ADD: the
\* descriptor stays open and unregistered.
AcceptOne_leak(K, c, fate) ==
    LET f == LowestFree(K.fdtab)
    IN  IF fate = "ok"
        THEN [K EXCEPT !.fdtab[f] = c,
                       !.reg = @ \cup {f},
                       !.rdy = IF Readable(c) THEN Append(@, f) ELSE @,
                       !.sst[c] = "open",
                       !.sfd[c] = f,
                       !.ops[c] = <<Call("accept", f), Call("set_nonblocking", 0),
                                    Call("EPOLL_CTL_ADD", 0)>>]
        ELSE IF fate = "addfail"
        THEN [K EXCEPT !.fdtab[f] = c, !.sst[c] = "open", !.sfd[c] = f,
                       !.ops[c] = <<Call("accept", f), Call("set_nonblocking", 0),
                                    Call("EPOLL_CTL_ADD", 0 - 1)>>]
        ELSE [K EXCEPT !.sst[c] = "closed", !.sfd[c] = f, !.why[c] = fate,
                       !.ops[c] = <<Call("accept", f), Call("set_nonblocking", 0 - 1),
                                    Call("close", 0)>>]

\* AcceptOne with the two calls in the other order: EPOLL_CTL_ADD first,
\* set_nonblocking after it.
AcceptOne_addfirst(K, c, fate) ==
    LET f == LowestFree(K.fdtab)
    IN  IF fate = "ok"
        THEN [K EXCEPT !.fdtab[f] = c,
                       !.reg = @ \cup {f},
                       !.rdy = IF Readable(c) THEN Append(@, f) ELSE @,
                       !.sst[c] = "open",
                       !.sfd[c] = f,
                       !.ops[c] = <<Call("accept", f), Call("EPOLL_CTL_ADD", 0),
                                    Call("set_nonblocking", 0)>>]
        ELSE IF fate = "addfail"
        THEN [K EXCEPT !.sst[c] = "closed", !.sfd[c] = f, !.why[c] = fate,
                       !.ops[c] = <<Call("accept", f), Call("EPOLL_CTL_ADD", 0 - 1),
                                    Call("close", 0)>>]
        ELSE [K EXCEPT !.sst[c] = "closed", !.sfd[c] = f, !.why[c] = fate,
                       !.ops[c] = <<Call("accept", f), Call("EPOLL_CTL_ADD", 0),
                                    Call("set_nonblocking", 0 - 1), Call("close", 0)>>]

\* AcceptOne on a kernel whose EPOLL_CTL_ADD does not look at the descriptor's
\* present state: a descriptor that is already readable when it is registered
\* is not put on the ready list.
AcceptOne_noedge(K, c, fate) ==
    LET f == LowestFree(K.fdtab)
    IN  IF fate = "ok"
        THEN [K EXCEPT !.fdtab[f] = c,
                       !.reg = @ \cup {f},
                       !.sst[c] = "open",
                       !.sfd[c] = f,
                       !.ops[c] = <<Call("accept", f), Call("set_nonblocking", 0),
                                    Call("EPOLL_CTL_ADD", 0)>>]
        ELSE IF fate = "nbfail"
        THEN [K EXCEPT !.sst[c] = "closed", !.sfd[c] = f, !.why[c] = fate,
                       !.ops[c] = <<Call("accept", f), Call("set_nonblocking", 0 - 1),
                                    Call("close", 0)>>]
        ELSE [K EXCEPT !.sst[c] = "closed", !.sfd[c] = f, !.why[c] = fate,
                       !.ops[c] = <<Call("accept", f), Call("set_nonblocking", 0),
                                    Call("EPOLL_CTL_ADD", 0 - 1), Call("close", 0)>>]

\* One pass of accept_connections' loop over connection c, accepted as the
\* lowest free descriptor: set_nonblocking and EPOLL_CTL_ADD succeed ("ok"),
\* or one of them fails and the descriptor is closed.  K holds the kernel and
\* connection state the loop changes.
AcceptOne(K, c, fate) ==
    LET f == LowestFree(K.fdtab)
    IN  IF fate = "ok"
        THEN [K EXCEPT !.fdtab[f] = c,
                       !.reg = @ \cup {f},
                       !.rdy = IF Readable(c) THEN Append(@, f) ELSE @,
                       !.sst[c] = "open",
                       !.sfd[c] = f,
                       !.ops[c] = <<Call("accept", f), Call("set_nonblocking", 0),
                                    Call("EPOLL_CTL_ADD", 0)>>]
        ELSE IF fate = "nbfail"
        THEN [K EXCEPT !.sst[c] = "closed", !.sfd[c] = f, !.why[c] = fate,
                       !.ops[c] = <<Call("accept", f), Call("set_nonblocking", 0 - 1),
                                    Call("close", 0)>>]
        ELSE [K EXCEPT !.sst[c] = "closed", !.sfd[c] = f, !.why[c] = fate,
                       !.ops[c] = <<Call("accept", f), Call("set_nonblocking", 0),
                                    Call("EPOLL_CTL_ADD", 0 - 1), Call("close", 0)>>]

RECURSIVE AcceptLoop(_, _, _)
AcceptLoop(K, q, fates) ==
    IF q = <<>> THEN K
    ELSE AcceptLoop(AcceptOne(K, Head(q), Head(fates)), Tail(q), Tail(fates))

\* The loop accepts the first k queued connections; then accept reports
\* EAGAIN (the queue is empty) or another error (EMFILE stands for those,
\* which leave the pending connections queued), and either way the loop is
\* left by break.
accept_connections ==
    IF ~lopen
    THEN /\ acc' = [took |-> <<>>, errno |-> "EBADF"]
         /\ UNCHANGED <<kernVars, srvVars>>
    ELSE \E k \in 0..Len(lq) :
         \E fates \in [1..k -> {"ok", "nbfail", "addfail"}] :
            LET K == AcceptLoop([fdtab |-> fdtab, reg |-> reg, rdy |-> rdy,
                                 sst |-> sst, sfd |-> sfd, why |-> why, ops |-> ops],
                                SubSeq(lq, 1, k), fates)
            IN  /\ fdtab' = K.fdtab
                /\ reg' = K.reg
                /\ rdy' = K.rdy
                /\ sst' = K.sst
                /\ sfd' = K.sfd
                /\ why' = K.why
                /\ ops' = K.ops
                /\ lq' = Drop(lq, k)
                /\ acc' = [took  |-> SubSeq(lq, 1, k),
                           errno |-> IF k = Len(lq) THEN "EAGAIN" ELSE "EMFILE"]
                /\ UNCHANGED <<lopen, lerr, rd, parsed, sresp>>

\* main's branch for EPOLLERR | EPOLLHUP: EPOLL_CTL_DEL and close on whatever
\* descriptor the event names.  Closing the listening socket resets the
\* connections still queued on it.
CloseOnError(f) ==
    IF f = server_fd
    THEN /\ lopen' = FALSE
         /\ reg' = reg \ {f}
         /\ rdy' = Without(rdy, f)
         /\ lq' = <<>>
         /\ UNCHANGED <<lerr, fdtab, srvVars>>
    ELSE IF fdtab[f] = 0
    THEN UNCHANGED <<kernVars, srvVars>>
    ELSE /\ DelAndClose(f, "hup")
         /\ ops' = [ops EXCEPT ![fdtab[f]] = @ \o Teardown]
         /\ UNCHANGED <<lopen, lerr, lq, sfd, rd, parsed, sresp>>

\* The for-loop's body with the tests in another order: the listening
\* descriptor and EPOLLIN are looked at before EPOLLERR | EPOLLHUP.
DispatchEvent_infirst(ev) ==
    IF ev.fd = server_fd
    THEN accept_connections
    ELSE IF "EPOLLIN" \in ev.events
    THEN handle_client_data(ev.fd) /\ UNCHANGED acc
    ELSE IF ev.events \cap {"EPOLLERR", "EPOLLHUP"} # {}
    THEN CloseOnError(ev.fd) /\ UNCHANGED acc
    ELSE UNCHANGED <<kernVars, srvVars, acc>>

\* The body of main's for-loop for one event.
DispatchEvent(ev) ==
    IF ev.events \cap {"EPOLLERR", "EPOLLHUP"} # {}
    THEN CloseOnError(ev.fd) /\ UNCHANGED acc
    ELSE IF ev.fd = server_fd
    THEN accept_connections
    ELSE IF "EPOLLIN" \in ev.events
    THEN handle_client_data(ev.fd) /\ UNCHANGED acc
    ELSE UNCHANGED <<kernVars, srvVars, acc>>

\* ------------------------------------------------------------------------
\* main's event loop
\* ------------------------------------------------------------------------

\* The ready descriptors that still have something to report.
ReadyEvents == SelectSeq(rdy, LAMBDA f : EventsOf(f) # {})

\* One struct epoll_event as epoll_wait fills it for descriptor f.  The
\* field conn is not in the struct: it notes the connection f referred to
\* when the event was reported (0 for the listening descriptor), and no
\* handler reads it.
Event(f) ==
    [fd |-> f, events |-> EventsOf(f),
     conn |-> IF f = server_fd THEN 0 ELSE fdtab[f]]

\* epoll_wait reporting every ready descriptor twice in the batch.
Wait_twice ==
    /\ pc = "wait"
    /\ ReadyEvents # <<>>
    /\ batch' = [k \in 1..Len(Take(ReadyEvents, MAX_EVENTS)) |-> Event(ReadyEvents[k])]
                  \o [k \in 1..Len(Take(ReadyEvents, MAX_EVENTS)) |-> Event(ReadyEvents[k])]
    /\ rdy' = Drop(ReadyEvents, MAX_EVENTS)
    /\ idx' = 1
    /\ pc' = "dispatch"
    /\ acc' = NoAccept
    /\ UNCHANGED <<werr, lopen, lerr, reg, fdtab, lq, cliVars, srvVars>>
    /\ UNCHANGED offVars

\* epoll_wait returns up to MAX_EVENTS events, oldest first, and takes them
\* off the ready list.
Wait ==
    /\ pc = "wait"
    /\ ReadyEvents # <<>>
    /\ batch' = [k \in 1..Len(Take(ReadyEvents, MAX_EVENTS)) |-> Event(ReadyEvents[k])]
    /\ rdy' = Drop(ReadyEvents, MAX_EVENTS)
    /\ idx' = 1
    /\ pc' = "dispatch"
    /\ acc' = NoAccept
    /\ UNCHANGED <<werr, lopen, lerr, reg, fdtab, lq, cliVars, srvVars>>
    /\ UNCHANGED offVars

\* epoll_wait blocked with nothing ready and a signal arrived: it returns -1
\* with EINTR.  The loop is left by break whatever errno is; main closes
\* server_fd and epoll_fd and returns, which ends the process and with it
\* every descriptor.
WaitInterrupted ==
    /\ pc = "wait"
    /\ ReadyEvents = <<>>
    /\ pc' = "exited"
    /\ werr' = "EINTR"
    /\ lopen' = FALSE
    /\ reg' = {}
    /\ rdy' = <<>>
    /\ lq' = <<>>
    /\ fdtab' = [f \in ClientFds |-> 0]
    /\ sst' = [c \in Clients |-> IF sst[c] = "open" THEN "closed" ELSE sst[c]]
    /\ why' = [c \in Clients |-> IF sst[c] = "open" THEN "exit" ELSE why[c]]
    /\ UNCHANGED <<lerr, batch, idx, cliVars, sfd, rd, parsed, sresp, ops, acc>>
    /\ UNCHANGED offVars

\* One iteration of the for-loop over the batch.
Dispatch ==
    /\ pc = "dispatch"
    /\ DispatchEvent(batch[idx])
    /\ IF idx < Len(batch)
       THEN idx' = idx + 1 /\ UNCHANGED <<pc, batch>>
       ELSE pc' = "wait" /\ idx' = 0 /\ batch' = <<>>
    /\ UNCHANGED <<werr, cliVars>>
    /\ UNCHANGED offVars

\* ------------------------------------------------------------------------
\* The clients
\* ------------------------------------------------------------------------

\* connect() completes in the kernel: the connection joins the listen queue
\* and raises an edge on the listening descriptor.
Connect(c, r) ==
    /\ pc # "exited"
    /\ lopen
    /\ cst[c] = "idle"
    /\ cst' = [cst EXCEPT ![c] = "conn"]
    /\ req' = [req EXCEPT ![c] = r]
    /\ lq' = Append(lq, c)
    /\ rdy' = Edge(rdy, reg, server_fd)
    /\ UNCHANGED <<loopVars, lopen, lerr, reg, fdtab, sent, cend, srvVars, acc>>
    /\ UNCHANGED offVars

\* The edge a client's send, FIN or RST raises on the server's descriptor.
PeerEdge(c) ==
    IF sst[c] = "open" THEN Edge(rdy, reg, sfd[c]) ELSE rdy

\* send() of the request's next bytes, up to one of the positions Cuts allows.
Send(c) ==
    /\ pc # "exited"
    /\ cst[c] = "conn"
    /\ cend[c] = "open"
    /\ \E p \in Cuts(req[c]) :
          /\ p > sent[c]
          /\ sent' = [sent EXCEPT ![c] = p]
    /\ rdy' = PeerEdge(c)
    /\ UNCHANGED <<loopVars, lopen, lerr, reg, fdtab, lq, cst, req, cend, srvVars, acc>>
    /\ UNCHANGED offVars

\* The client closes or shuts down its end: FIN.
Disconnect(c) ==
    /\ pc # "exited"
    /\ cst[c] = "conn"
    /\ cend[c] = "open"
    /\ sst[c] # "closed"
    /\ cend' = [cend EXCEPT ![c] = "fin"]
    /\ rdy' = PeerEdge(c)
    /\ UNCHANGED <<loopVars, lopen, lerr, reg, fdtab, lq, cst, req, sent, srvVars, acc>>
    /\ UNCHANGED offVars

\* The client aborts the connection: RST.
Abort(c) ==
    /\ pc # "exited"
    /\ cst[c] = "conn"
    /\ cend[c] # "rst"
    /\ sst[c] # "closed"
    /\ cend' = [cend EXCEPT ![c] = "rst"]
    /\ rdy' = PeerEdge(c)
    /\ UNCHANGED <<loopVars, lopen, lerr, reg, fdtab, lq, cst, req, sent, srvVars, acc>>
    /\ UNCHANGED offVars

Next ==
    \/ Wait
    \/ WaitInterrupted
    \/ Dispatch
    \/ \E c \in Busy, r \in SharedReqs : Connect(c, r)
    \/ \E c \in Busy : Send(c)
    \/ \E c \in Busy : Disconnect(c)
    \/ \E c \in Busy : Abort(c)

Spec == Init /\ [][Next]_vars

\* One client alone, sending any request of the catalogue.
NextSolo ==
    \/ Wait
    \/ WaitInterrupted
    \/ Dispatch
    \/ \E r \in ReqIds : Connect(1, r)
    \/ Send(1)
    \/ Disconnect(1)
    \/ Abort(1)

SpecSolo == Init /\ [][NextSolo]_vars

\* The kernel raises an error condition on the listening socket, which
\* epoll reports as EPOLLERR on server_fd whatever events were asked for.
ListenError ==
    /\ pc # "exited"
    /\ lopen
    /\ ~lerr
    /\ lerr' = TRUE
    /\ rdy' = Edge(rdy, reg, server_fd)
    /\ UNCHANGED <<loopVars, lopen, reg, fdtab, lq, cliVars, srvVars, acc>>
    /\ UNCHANGED offVars

\* One client, and the listening socket may report an error.
NextListenErr ==
    \/ Wait
    \/ WaitInterrupted
    \/ Dispatch
    \/ ListenError
    \/ \E r \in ReqIds : Connect(1, r)
    \/ Send(1)
    \/ Disconnect(1)
    \/ Abort(1)

SpecListenErr == Init /\ [][NextListenErr]_vars

\* send() of the whole request in one call.
SendAll(c) ==
    /\ pc # "exited"
    /\ cst[c] = "conn"
    /\ cend[c] = "open"
    /\ sst[c] # "closed"
    /\ sent[c] = 0
    /\ sent' = [sent EXCEPT ![c] = Len(Requests[req[c]])]
    /\ rdy' = PeerEdge(c)
    /\ UNCHANGED <<loopVars, lopen, lerr, reg, fdtab, lq, cst, req, cend, srvVars, acc>>
    /\ UNCHANGED offVars

\* All the clients, each sending the same request whole or closing without
\* sending: enough connections for a batch in which a descriptor number is
\* closed, given out again and followed by further events.
NextTrio ==
    \/ Wait
    \/ WaitInterrupted
    \/ Dispatch
    \/ \E c \in Clients : Connect(c, IdOf(ReqJson))
    \/ \E c \in Clients : SendAll(c)
    \/ \E c \in Clients : Disconnect(c)

SpecTrio == Init /\ [][NextTrio]_vars

\* The event loop with no signal delivered to the process: epoll_wait
\* returns only with events.
NextQueue ==
    \/ Wait
    \/ Dispatch
    \/ \E c \in Busy : Connect(c, IdOf(ReqJson))
    \/ \E c \in Busy : SendAll(c)
    \/ \E c \in Busy : Disconnect(c)

\* main is one thread that does nothing but run its loop: whenever
\* epoll_wait can return it does, and a batch it returned is dispatched.
\* Nothing is assumed of the clients.
SpecQueueFair ==
    /\ Init
    /\ [][NextQueue]_vars
    /\ WF_vars(Wait)
    /\ WF_vars(Dispatch)

\* ------------------------------------------------------------------------
\* Startup: main and srv_init of the three executables
\* ------------------------------------------------------------------------

\* What main returns on a startup failure: 1 in httpd-epoll.c and
\* http-server.c, -1 in httpd.c.
MainFail(p) == IF p = "httpd" THEN 0 - 1 ELSE 1

\* return r from main: the exit status is r's low eight bits.
Return(r) == mpc' = "exited" /\ exit_status' = r % 256

\* A call of the startup sequence fails: the descriptors opened so far are
\* closed and main returns its failure value.
CallFails == failed' = mpc /\ Return(MainFail(prog))

\* main up to the call of srv_init: argc is tested, argv[1] converted by
\* atoi, and only http-server.c tests the result.
ParseArgs ==
    /\ mpc = "args"
    /\ IF Len(argv) + 1 < 2
       THEN Return(MainFail(prog)) /\ UNCHANGED port
       ELSE /\ port' = atoi(argv[1])
            /\ IF prog = "http-server" /\ atoi(argv[1]) <= 0
               THEN Return(1)
               ELSE mpc' = "socket" /\ UNCHANGED exit_status
    /\ UNCHANGED <<prog, argv, sin_port, listened, failed, epollVars, kaVars>>

Socket ==
    /\ mpc = "socket"
    /\ \/ mpc' = "setsockopt" /\ UNCHANGED <<failed, exit_status>>
       \/ CallFails
    /\ UNCHANGED <<prog, argv, port, sin_port, listened, epollVars, kaVars>>

SetSockOpt ==
    /\ mpc = "setsockopt"
    /\ \/ mpc' = "bind" /\ UNCHANGED <<failed, exit_status>>
       \/ CallFails
    /\ UNCHANGED <<prog, argv, port, sin_port, listened, epollVars, kaVars>>

\* inet_pton of the literal LISTENADDR returns 1; srv.sin_port = htons(portno)
\* and bind, which with port 0 binds a port of the kernel's choice.
Bind ==
    /\ mpc = "bind"
    /\ sin_port' = htons(port)
    /\ \/ mpc' = "listen" /\ UNCHANGED <<failed, exit_status>>
       \/ CallFails
    /\ UNCHANGED <<prog, argv, port, listened, epollVars, kaVars>>

\* listen; srv_init of http-server.c and httpd.c returns after it and main
\* enters its accept loop.
Listen ==
    /\ mpc = "listen"
    /\ \/ /\ listened' = TRUE
          /\ mpc' = IF prog = "httpd-epoll" THEN "set_nonblocking" ELSE "started"
          /\ UNCHANGED <<failed, exit_status>>
       \/ CallFails /\ UNCHANGED listened
    /\ UNCHANGED <<prog, argv, port, sin_port, epollVars, kaVars>>

\* httpd-epoll.c only: set_nonblocking(s) at the end of srv_init.
SetNonblocking ==
    /\ mpc = "set_nonblocking"
    /\ \/ mpc' = "epoll_create1" /\ UNCHANGED <<failed, exit_status>>
       \/ CallFails
    /\ UNCHANGED <<prog, argv, port, sin_port, listened, epollVars, kaVars>>

EpollCreate ==
    /\ mpc = "epoll_create1"
    /\ \/ mpc' = "epoll_ctl" /\ UNCHANGED <<failed, exit_status>>
       \/ CallFails
    /\ UNCHANGED <<prog, argv, port, sin_port, listened, epollVars, kaVars>>

\* EPOLL_CTL_ADD of server_fd; then main enters the event loop.
EpollCtlAdd ==
    /\ mpc = "epoll_ctl"
    /\ \/ mpc' = "started" /\ UNCHANGED <<failed, exit_status>>
       \/ CallFails
    /\ UNCHANGED <<prog, argv, port, sin_port, listened, epollVars, kaVars>>

\* Any of the three executables is started with any of the command lines.
InitStartup ==
    /\ InitLoop
    /\ prog \in Programs
    /\ argv \in CommandLines
    /\ mpc = "args"
    /\ port = 0
    /\ sin_port = 0
    /\ listened = FALSE
    /\ failed = "none"
    /\ exit_status = 0
    /\ NoChild

NextStartup ==
    \/ ParseArgs
    \/ Socket
    \/ SetSockOpt
    \/ Bind
    \/ Listen
    \/ SetNonblocking
    \/ EpollCreate
    \/ EpollCtlAdd

SpecStartup == InitStartup /\ [][NextStartup]_vars

\* ------------------------------------------------------------------------
\* httpd.c: the keep-alive connection handler of the forked child
\* ------------------------------------------------------------------------

\* The byte '\0'.
NUL == "NUL"

\* The C string that starts at buf[1]: the bytes before the first NUL.
CString(buf) == SubSeq(buf, 1, Scan(buf, 1, {NUL}) - 1)

UpperCase ==
    <<"A", "B", "C", "D", "E", "F", "G", "H", "I", "J", "K", "L", "M", "N", "O", "P", "Q",
      "R", "S", "T", "U", "V", "W", "X", "Y", "Z">>

LowerCase ==
    <<"a", "b", "c", "d", "e", "f", "g", "h", "i", "j", "k", "l", "m", "n", "o", "p", "q",
      "r", "s", "t", "u", "v", "w", "x", "y", "z">>

\* tolower on one byte, on a string.
ToLowerByte(ch) ==
    IF \E i \in 1..Len(UpperCase) : UpperCase[i] = ch
    THEN LowerCase[CHOOSE i \in 1..Len(UpperCase) : UpperCase[i] = ch]
    ELSE ch

ToLower(str) == [k \in 1..Len(str) |-> ToLowerByte(str[k])]

\* strcasecmp(a, b) == 0
strcasecmp0(a, b) == ToLower(a) = ToLower(b)

\* strcasestr(hay, needle) != NULL
strcasestr(hay, needle) ==
    \E i \in 1..(Len(hay) - Len(needle) + 1) :
        ToLower(SubSeq(hay, i, i + Len(needle) - 1)) = ToLower(needle)

ConnectionClose ==
    <<"C", "o", "n", "n", "e", "c", "t", "i", "o", "n", ":", " ", "c", "l", "o", "s",
      "e">>

KaIndex ==
    <<"G", "E", "T", " ", "/", "i", "n", "d", "e", "x", ".", "h", "t", "m", "l", " ",
      "H", "T", "T", "P", "/", "1", ".", "1", "\r", "\n", "\r", "\n">>

KaJsonClose ==
    <<"G", "E", "T", " ", "/", "d", "a", "t", "a", ".", "j", "s", "o", "n", " ", "H",
      "T", "T", "P", "/", "1", ".", "1", "\r", "\n", "C", "o", "n", "n", "e", "c", "t",
      "i", "o", "n", ":", " ", "c", "l", "o", "s", "e", "\r", "\n", "\r", "\n">>

KaRootClose ==
    <<"G", "E", "T", " ", "/", " ", "H", "T", "T", "P", "/", "1", ".", "1", "\r", "\n",
      "H", "o", "s", "t", ":", " ", "x", "\r", "\n", "C", "o", "n", "n", "e", "c", "t",
      "i", "o", "n", ":", " ", "c", "l", "o", "s", "e", "\r", "\n", "\r", "\n">>

KaPost ==
    <<"P", "O", "S", "T", " ", "/", "i", "n", "d", "e", "x", ".", "h", "t", "m", "l",
      " ", "H", "T", "T", "P", "/", "1", ".", "1", "\r", "\n", "\r", "\n">>

\* No space in it at all.
KaGarbage ==
    <<"G", "A", "R", "B", "A", "G", "E", "\r", "\n", "\r", "\n">>

\* One space only: no version after the target.
KaNoVersion ==
    <<"G", "E", "T", " ", "/", "i", "n", "d", "e", "x", ".", "h", "t", "m", "l", "\r",
      "\n", "\r", "\n">>

KaRequests == <<KaIndex, KaJsonClose, KaRootClose, KaPost, KaGarbage, KaNoVersion>>

KaIds == 1..Len(KaRequests)

\* The bytes of the queued requests, in order.
RECURSIVE Queued(_)
Queued(q) == IF q = <<>> THEN <<>> ELSE KaRequests[Head(q)] \o Queued(Tail(q))

\* parse_http of httpd.c on the buffer str.  It writes '\0' over the first
\* space and over the second: the result is the request (NULL when a space
\* is missing) and the buffer as the call leaves it.
httpd_parse_http(str) ==
    LET s1 == Scan(str, 1, {" "})
        b1 == IF s1 <= Len(str) THEN [str EXCEPT ![s1] = NUL] ELSE str
        s2 == Scan(str, s1 + 1, {" "})
        b2 == IF s2 <= Len(str) THEN [b1 EXCEPT ![s2] = NUL] ELSE b1
        url == SubSeq(str, s1 + 1, s2 - 1)
    IN  IF Len(str) <= 0 \/ s1 > Len(str)
        THEN [req |-> NULL, buf |-> str]
        ELSE IF s2 > Len(str)
        THEN [req |-> NULL, buf |-> b1]
        ELSE [req |-> [method |-> Take(SubSeq(str, 1, s1 - 1), MethodSize - 1),
                       url    |-> Take(IF url # <<>> /\ url[1] = "/" THEN Tail(url) ELSE url,
                                       UrlSize - 1)],
              buf |-> b2]

\* http_send_response of httpd.c: the header formatted by snprintf, sent by
\* one send, the body by another.
httpd_http_send_response(code, reason, content_type, body, ka) ==
    <<<<"HTTP/1.1", Dec(code), reason>>,
      <<"Content-Type", content_type>>,
      <<"Content-Length", Dec(Len(body))>>,
      <<"Connection", IF ka # 0 THEN "keep-alive" ELSE "close">>,
      <<>>>> \o body

\* The if-chain of cli_conn that picks the response to a parsed request.
httpd_route(r, ka) ==
    IF strcasecmp0(r.method, <<"G", "E", "T">>)
    THEN IF r.url = <<"i", "n", "d", "e", "x", ".", "h", "t", "m", "l">> \/ r.url = <<>>
         THEN httpd_http_send_response(200, "OK", "text/html", BodyHtml, ka)
         ELSE IF r.url = <<"d", "a", "t", "a", ".", "j", "s", "o", "n">>
         THEN httpd_http_send_response(200, "OK", "application/json", BodyJson, ka)
         ELSE httpd_http_send_response(404, "Not Found", "text/plain", BodyNotFound, ka)
    ELSE httpd_http_send_response(405, "Method Not Allowed", "text/plain",
                                  BodyNotAllowed, ka)

\* cli_read: what read(c, buf, sizeof(buf) - 1) gives.  Queued bytes come
\* first; with none, end of stream after the peer's FIN, ECONNRESET after
\* its RST, and EAGAIN when SO_RCVTIMEO expires on an idle connection.
cli_read ==
    IF kin # <<>> THEN [n |-> Len(Take(Queued(kin), REQ_BUFSIZE - 1)),
                        buf |-> Take(Queued(kin), REQ_BUFSIZE - 1)]
    ELSE IF kend = "fin" THEN [n |-> 0, errno |-> "none"]
    ELSE IF kend = "rst" THEN [n |-> 0 - 1, errno |-> "ECONNRESET"]
    ELSE [n |-> 0 - 1, errno |-> "EAGAIN"]

\* break out of the while loop, close(c), return.
LeaveLoop(reason) ==
    /\ kexit' = reason
    /\ kclosed' = kclosed + 1
    /\ kpc' = "returned"

\* One pass of cli_conn's while loop, from the blocking read to the next
\* one or to the return.  parse_http has put '\0' over the spaces of the
\* request line, so the C string strcasestr searches is the method alone.
\* A send on a connection the peer has reset fails, and the next one (the
\* body's) raises SIGPIPE, which ends the child.
cli_conn ==
    /\ kpc = "read"
    /\ keep_alive # 0
    /\ IF cli_read.n <= 0
       THEN /\ LeaveLoop(IF cli_read.n = 0 THEN "eof"
                         ELSE IF cli_read.errno = "EAGAIN" THEN "timeout" ELSE "rderr")
            /\ UNCHANGED <<keep_alive, kin, klog>>
       ELSE LET p  == cli_read.buf
                r  == httpd_parse_http(CString(p))
                ka == IF strcasestr(CString(r.buf), ConnectionClose) THEN 0 ELSE keep_alive
            IN  /\ kin' = <<>>
                /\ IF r.req = NULL
                   THEN /\ klog' = Append(klog, [text |-> p, req |-> NULL, resp |-> <<>>])
                        /\ LeaveLoop("parse")
                        /\ UNCHANGED keep_alive
                   ELSE /\ keep_alive' = ka
                        /\ IF kend = "rst"
                           THEN /\ klog' = Append(klog,
                                       [text |-> p, req |-> r.req, resp |-> <<>>])
                                /\ kexit' = "SIGPIPE"
                                /\ kpc' = "killed"
                                /\ UNCHANGED kclosed
                           ELSE /\ klog' = Append(klog,
                                       [text |-> p, req |-> r.req,
                                        resp |-> <<httpd_route(r.req, ka)>>])
                                /\ IF ka = 0
                                   THEN LeaveLoop("close")
                                   ELSE UNCHANGED <<kpc, kexit, kclosed>>
    /\ UNCHANGED <<kend, ksends, epollVars, bootVars>>

\* The client sends one more request on the connection.
KaSend(r) ==
    /\ kpc = "read"
    /\ kend = "open"
    /\ ksends < MaxSends
    /\ kin' = Append(kin, r)
    /\ ksends' = ksends + 1
    /\ UNCHANGED <<kpc, keep_alive, kend, klog, kexit, kclosed, epollVars, bootVars>>

\* The client closes its end: FIN.
KaDisconnect ==
    /\ kpc = "read"
    /\ kend = "open"
    /\ kend' = "fin"
    /\ UNCHANGED <<kpc, keep_alive, kin, ksends, klog, kexit, kclosed, epollVars, bootVars>>

\* The client aborts the connection: RST.
KaAbort ==
    /\ kpc = "read"
    /\ kend # "rst"
    /\ kend' = "rst"
    /\ UNCHANGED <<kpc, keep_alive, kin, ksends, klog, kexit, kclosed, epollVars, bootVars>>

\* main of httpd.c has accepted a connection and forked; the child has
\* entered cli_conn and set SO_RCVTIMEO.
InitKeepAlive ==
    /\ InitLoop
    /\ prog = "httpd"
    /\ argv = <<ArgPort>>
    /\ mpc = "started"
    /\ port = atoi(ArgPort)
    /\ sin_port = htons(atoi(ArgPort))
    /\ listened = TRUE
    /\ failed = "none"
    /\ exit_status = 0
    /\ kpc = "read"
    /\ keep_alive = 1
    /\ kin = <<>>
    /\ kend = "open"
    /\ ksends = 0
    /\ klog = <<>>
    /\ kexit = "none"
    /\ kclosed = 0

NextKeepAlive ==
    \/ cli_conn
    \/ \E r \in KaIds : KaSend(r)
    \/ KaDisconnect
    \/ KaAbort

SpecKeepAlive == InitKeepAlive /\ [][NextKeepAlive]_vars

\* ------------------------------------------------------------------------
\* Vocabulary of the properties
\* ------------------------------------------------------------------------

IsEol(b) == b \in {"\r", "\n"}

\* The bytes client c has sent, and those the server has read from it.
SentBytes(c) == SubSeq(Requests[req[c]], 1, sent[c])

ReadBytes(c) == SubSeq(Requests[req[c]], 1, rd[c])

\* s holds a line terminator.
HasEol(s) == \E k \in 1..Len(s) : IsEol(s[k])

\* The bytes of s before its first line terminator.
FirstLine(s) == SubSeq(s, 1, Scan(s, 1, {"\r", "\n"}) - 1)

Spaces(s) == {k \in 1..Len(s) : s[k] = " "}

\* s starts with a complete request line METHOD SP TARGET SP VERSION CRLF:
\* three non-empty tokens separated by single spaces.
WellFormedLine(s) ==
    LET line == FirstLine(s)
        n == Len(line)
    IN  /\ n + 2 <= Len(s)
        /\ s[n + 1] = "\r"
        /\ s[n + 2] = "\n"
        /\ Cardinality(Spaces(line)) = 2
        /\ \A k \in Spaces(line) : k > 1 /\ k < n /\ k + 1 \notin Spaces(line)

\* The method and the target of a well-formed request line.
LineMethod(s) == SubSeq(s, 1, Scan(s, 1, {" "}) - 1)

LineTarget(s) ==
    SubSeq(s, Scan(s, 1, {" "}) + 1, Scan(s, Scan(s, 1, {" "}) + 1, {" "}) - 1)

\* The static route table, as the specification states it.
RouteTable(method, target) ==
    IF method # <<"G", "E", "T">>
    THEN [code |-> 405, reason |-> "Method Not Allowed", type |-> "text/plain",
          body |-> BodyNotAllowed]
    ELSE IF target \in {<<"/">>, <<"/", "i", "n", "d", "e", "x", ".", "h", "t", "m", "l">>}
    THEN [code |-> 200, reason |-> "OK", type |-> "text/html", body |-> BodyHtml]
    ELSE IF target = <<"/", "d", "a", "t", "a", ".", "j", "s", "o", "n">>
    THEN [code |-> 200, reason |-> "OK", type |-> "application/json",
          body |-> BodyJson]
    ELSE [code |-> 404, reason |-> "Not Found", type |-> "text/plain",
          body |-> BodyNotFound]

\* Reading a serialized response back: the number a digit string denotes,
\* the status line's fields, a header's value, and the bytes after the
\* empty line.
RECURSIVE Number(_)
Number(ds) ==
    IF ds = <<>> THEN 0
    ELSE 10 * Number(SubSeq(ds, 1, Len(ds) - 1)) + DigitValue(ds[Len(ds)])

RECURSIVE EmptyLineAt(_, _)
EmptyLineAt(w, k) == IF k > Len(w) \/ w[k] = <<>> THEN k ELSE EmptyLineAt(w, k + 1)

StatusCode(w) == Number(w[1][2])

Reason(w) == w[1][3]

HeaderValues(w, name) ==
    {w[k][2] : k \in {j \in 2..(EmptyLineAt(w, 1) - 1) : w[j][1] = name}}

WireBody(w) == SubSeq(w, EmptyLineAt(w, 1) + 1, Len(w))

\* The response w is the one the route table gives for (method, target).
Matches(w, method, target) ==
    /\ StatusCode(w) = RouteTable(method, target).code
    /\ Reason(w) = RouteTable(method, target).reason
    /\ HeaderValues(w, "Content-Type") = {RouteTable(method, target).type}
    /\ WireBody(w) = RouteTable(method, target).body

\* The step is one iteration of main's for-loop, on an event for connection c.
DispatchOf(c) ==
    /\ pc = "dispatch"
    /\ idx' # idx
    /\ sst[c] = "open"
    /\ batch[idx].fd = sfd[c]

\* ------------------------------------------------------------------------
\* C1
\* ------------------------------------------------------------------------

\* C1 (as claimed): a client that has sent a complete well-formed request
\* line, in one or more sends, and has been answered got exactly one
\* response, the one the route table assigns to the method and target of
\* that line, and the server has closed its handle.
C1_CompleteRequestGetsRoutedResponse ==
    \A c \in Clients :
        (/\ cst[c] = "conn"
         /\ WellFormedLine(SentBytes(c))
         /\ sresp[c] # <<>>)
        => /\ Len(sresp[c]) = 1
           /\ Matches(sresp[c][1].wire, LineMethod(SentBytes(c)), LineTarget(SentBytes(c)))
           /\ sst[c] = "closed"

\* ------------------------------------------------------------------------
\* C2
\* ------------------------------------------------------------------------

\* C2: every response written for a parsed (method, target) is the route
\* table's; and every response, the parse-failure one included, carries a
\* Content-Length whose value is the byte length of its body and the header
\* Connection: close.
C2_ResponseEqualsRouteTable ==
    \A c \in Clients :
        /\ Len(sresp[c]) = Len(parsed[c])
        /\ \A k \in 1..Len(sresp[c]) :
            /\ parsed[c][k] # NULL =>
                 Matches(sresp[c][k].wire, parsed[c][k].method, parsed[c][k].url)
            /\ \E v \in HeaderValues(sresp[c][k].wire, "Content-Length") :
                 /\ HeaderValues(sresp[c][k].wire, "Content-Length") = {v}
                 /\ Number(v) = Len(WireBody(sresp[c][k].wire))
            /\ HeaderValues(sresp[c][k].wire, "Connection") = {"close"}

\* A GET whose target merely starts with a known target was parsed and
\* answered 404.
C2_Witness ==
    \E c \in Clients :
        /\ sresp[c] # <<>>
        /\ parsed[c][1] # NULL
        /\ parsed[c][1].method = <<"G", "E", "T">>
        /\ parsed[c][1].url = <<"/", "i", "n", "d", "e", "x", ".", "h", "t", "m", "l", "x">>
        /\ StatusCode(sresp[c][1].wire) = 404

\* ------------------------------------------------------------------------
\* C3
\* ------------------------------------------------------------------------

\* C3 (as claimed): when the bytes the server read hold a first line with no
\* space before its line terminator, whatever follows that line, parse_http
\* reports a parse failure, the response is a 4xx one and the connection is
\* closed.
C3_NoSpaceFirstLineIsParseFailure ==
    \A c \in Clients :
        (/\ parsed[c] # <<>>
         /\ HasEol(ReadBytes(c))
         /\ Spaces(FirstLine(ReadBytes(c))) = {})
        => /\ parsed[c][1] = NULL
           /\ StatusCode(sresp[c][1].wire) \in 400..499
           /\ sst[c] = "closed"

\* ------------------------------------------------------------------------
\* C4
\* ------------------------------------------------------------------------

\* The descriptors of the accepted connections that are still open.
OpenFds == {f \in ClientFds : \E c \in Clients : sst[c] = "open" /\ sfd[c] = f}

\* C4: whenever the loop is blocked in epoll_wait, the registered client
\* descriptors are exactly the accepted descriptors that are still open; in
\* particular none is registered once no accepted connection is open.
C4_RegisteredEqualsOpen ==
    pc = "wait" =>
        /\ reg \ {server_fd} = OpenFds
        /\ \A f \in ClientFds : fdtab[f] # 0 <=> f \in OpenFds
        /\ (\A c \in Clients : sst[c] # "open") => reg \subseteq {server_fd}

\* The loop waits with one connection open and registered and another one
\* closed by the acceptor after a failed registration.
C4_Witness ==
    /\ pc = "wait"
    /\ \E c, d \in Clients :
        /\ sst[c] = "open"
        /\ sfd[c] \in reg
        /\ sst[d] = "closed"
        /\ why[d] = "addfail"

\* ------------------------------------------------------------------------
\* C5
\* ------------------------------------------------------------------------

\* C5: a client that has sent no bytes never has a response written to it;
\* and when the event its disconnect raised is dispatched, its descriptor
\* ends up neither registered nor open.
C5_SilentClientLeavesNothing ==
    /\ [](\A c \in Clients : sent[c] = 0 => sresp[c] = <<>>)
    /\ [][\A c \in Clients :
            (DispatchOf(c) /\ sent[c] = 0 /\ cend[c] # "open")
            => /\ sresp'[c] = <<>>
               /\ sst'[c] = "closed"
               /\ sfd[c] \notin reg'
               /\ fdtab'[sfd[c]] = 0]_vars

\* A client that sent nothing and closed was torn down on end of stream.
C5_Witness ==
    \E c \in Clients :
        /\ cst[c] = "conn"
        /\ sent[c] = 0
        /\ cend[c] = "fin"
        /\ sst[c] = "closed"
        /\ why[c] = "eof"

\* ------------------------------------------------------------------------
\* C6
\* ------------------------------------------------------------------------

\* C6: a connection gets at most one response and has at most one request
\* parsed; and in every state in which a response has been produced the
\* connection is closed and its descriptor no longer refers to it (the
\* handler that produced the response also deregistered and closed it).
C6_OneResponseThenClosed ==
    \A c \in Clients :
        /\ Len(sresp[c]) <= 1
        /\ Len(parsed[c]) <= 1
        /\ sresp[c] # <<>> =>
            /\ sst[c] = "closed"
            /\ fdtab[sfd[c]] # c

\* A client was answered and closed and has sent more bytes since, which
\* the server never read.
C6_Witness ==
    \E c \in Clients :
        /\ Len(sresp[c]) = 1
        /\ sst[c] = "closed"
        /\ why[c] = "resp"
        /\ sent[c] > rd[c]

\* ------------------------------------------------------------------------
\* C7
\* ------------------------------------------------------------------------

\* C7 (as claimed): when a Readable event is dispatched for a connection
\* whose peer is still open and whose bytes so far hold no line terminator
\* (so the read after them would block), the connection stays open and
\* registered and no response is written.
C7_IncompleteLineKeepsConnection ==
    [][\A c \in Clients :
         (/\ DispatchOf(c)
          /\ batch[idx].events = {"EPOLLIN"}
          /\ cend[c] = "open"
          /\ ~HasEol(SentBytes(c)))
         => /\ sst'[c] = "open"
            /\ sfd[c] \in reg'
            /\ fdtab'[sfd[c]] = c
            /\ sresp'[c] = <<>>]_vars

\* ------------------------------------------------------------------------
\* C8
\* ------------------------------------------------------------------------

\* C8: dispatching an event that carries EPOLLERR or EPOLLHUP for an open
\* client descriptor, with or without EPOLLIN, deregisters and closes the
\* descriptor and writes nothing to any connection.
C8_ErrorOrHangupTearsDownSilently ==
    [][\A c \in Clients :
         (DispatchOf(c) /\ batch[idx].events \cap {"EPOLLERR", "EPOLLHUP"} # {})
         => /\ sst'[c] = "closed"
            /\ sfd[c] \notin reg'
            /\ fdtab'[sfd[c]] = 0
            /\ sresp' = sresp
            /\ parsed' = parsed
            /\ rd' = rd]_vars

\* A connection with unread request bytes (so EPOLLIN was set as well) was
\* torn down by the error/hangup branch.
C8_Witness ==
    \E c \in Clients :
        /\ why[c] = "hup"
        /\ sst[c] = "closed"
        /\ sent[c] > rd[c]
        /\ sresp[c] = <<>>

\* ------------------------------------------------------------------------
\* C9
\* ------------------------------------------------------------------------

\* The errno values of epoll_wait after which the call is to be retried.
Recoverable == {"EINTR"}

\* C9 (as claimed): the loop is left only after an epoll_wait failure that
\* is not recoverable.
C9_LoopEndsOnlyOnFatalWait ==
    pc = "exited" => werr \notin Recoverable \cup {"none"}

\* ------------------------------------------------------------------------
\* C10
\* ------------------------------------------------------------------------

\* C10 (as claimed): when a read filled the buffer to its limit, the request
\* is answered with a 4xx response and the connection is torn down.
C10_FullBufferIsRejected ==
    \A c \in Clients :
        (rd[c] >= BUFFER_SIZE - 1 /\ parsed[c] # <<>>)
        => /\ StatusCode(sresp[c][1].wire) \in 400..499
           /\ sst[c] = "closed"

\* ------------------------------------------------------------------------
\* C11
\* ------------------------------------------------------------------------

\* C11 (as claimed): an executable started without a port argument, or with
\* one whose number is not positive, never listens and never enters its
\* loop, and its exit status is not 0; and one whose socket, bind, listen or
\* registration call failed has exited with a status that is not 0.
C11_BadStartExitsNonZero ==
    /\ (argv = <<>> \/ atoi(argv[1]) <= 0)
       => /\ ~listened
          /\ mpc # "started"
          /\ mpc = "exited" => exit_status # 0
    /\ failed # "none" => mpc = "exited" /\ exit_status # 0

\* ------------------------------------------------------------------------
\* C12
\* ------------------------------------------------------------------------

\* The positions of the calls named name in connection c's call log.
CallsAt(c, name) == {k \in 1..Len(ops[c]) : ops[c][k].call = name}

\* The descriptor of connection c was registered.
WasRegistered(c) == \E k \in CallsAt(c, "EPOLL_CTL_ADD") : ops[c][k].ret = 0

\* C12: in the call log of every connection whose descriptor was registered
\* there is at most one close, the call right before it is the EPOLL_CTL_DEL
\* and nothing follows it; and a connection torn down after a response
\* (parse failure included), on end of stream, on a read error or by an
\* Error/HangUp event has that one close in its log.
C12_DeregisteredBeforeClosedOnce ==
    \A c \in Clients :
        WasRegistered(c) =>
            /\ Cardinality(CallsAt(c, "close")) <= 1
            /\ Cardinality(CallsAt(c, "EPOLL_CTL_DEL")) <= 1
            /\ \A k \in CallsAt(c, "close") :
                /\ k = Len(ops[c])
                /\ ops[c][k - 1].call = "EPOLL_CTL_DEL"
            /\ (sst[c] = "closed" /\ why[c] \in {"resp", "eof", "rderr", "hup"})
               => CallsAt(c, "close") # {}

\* One connection was torn down by an Error/HangUp event and another after
\* the response to a parse failure.
C12_Witness ==
    \E c, d \in Clients :
        /\ why[c] = "hup"
        /\ CallsAt(c, "close") # {}
        /\ why[d] = "resp"
        /\ parsed[d] = <<NULL>>
        /\ CallsAt(d, "close") # {}

\* ------------------------------------------------------------------------
\* C13
\* ------------------------------------------------------------------------

\* The step is one iteration of main's for-loop that calls accept_connections
\* on the open listening descriptor.
DispatchOfAccept ==
    /\ pc = "dispatch"
    /\ idx' # idx
    /\ batch[idx].fd = server_fd
    /\ batch[idx].events \cap {"EPOLLERR", "EPOLLHUP"} = {}
    /\ lopen

\* C13 (as claimed): accept_connections returns only after an accept call
\* reported would-block, that is with the listen queue empty: an accept
\* error does not end it while connections are pending.
C13_AcceptorReturnsOnWouldBlockOnly ==
    [][DispatchOfAccept => lq' = <<>>]_vars

\* ------------------------------------------------------------------------
\* C14
\* ------------------------------------------------------------------------

\* C14 (as claimed): once the handler of a Readable event has run on a
\* connection, the last read it made reported would-block or end of stream
\* (a result <= 0), or the bytes read fill the buffer to its limit.
C14_ReadsUntilWouldBlock ==
    \A c \in Clients :
        \A k \in CallsAt(c, "read") :
            (\A j \in CallsAt(c, "read") : j <= k)
            => \/ ops[c][k].ret <= 0
               \/ rd[c] >= BUFFER_SIZE - 1

\* ------------------------------------------------------------------------
\* C15
\* ------------------------------------------------------------------------

\* The bytes the write calls of connection c's log took, up to entry k.
RECURSIVE Written(_, _)
Written(c, k) ==
    IF k = 0 THEN 0
    ELSE Written(c, k - 1)
           + (IF ops[c][k].call = "write" /\ ops[c][k].ret > 0 THEN ops[c][k].ret ELSE 0)

\* C15 (as claimed): when a connection that was sent a response has been
\* closed, the writes made on it took the whole serialized response, or one
\* of them failed (would-block or error) and the connection was given up.
C15_ResponseWrittenInFull ==
    \A c \in Clients :
        (sresp[c] # <<>> /\ CallsAt(c, "close") # {})
        => \/ Written(c, Len(ops[c])) = Len(sresp[c][1].wire)
           \/ \E k \in CallsAt(c, "write") : ops[c][k].ret < 0

\* ------------------------------------------------------------------------
\* C16
\* ------------------------------------------------------------------------

\* set_nonblocking or EPOLL_CTL_ADD failed on connection c's descriptor.
SetupFailed(c) ==
    \E k \in CallsAt(c, "set_nonblocking") \cup CallsAt(c, "EPOLL_CTL_ADD") :
        ops[c][k].ret < 0

\* C16: every EPOLL_CTL_ADD on a client descriptor comes right after a
\* set_nonblocking that succeeded on it, so every registered descriptor is
\* non-blocking; and a connection on which either call failed was closed by
\* the very next call, was never registered, is not in the descriptor table
\* and had nothing read from or written to it.
C16_NonBlockingBeforeRegistered ==
    \A c \in Clients :
        /\ \A k \in CallsAt(c, "EPOLL_CTL_ADD") :
            k > 1 /\ ops[c][k - 1] = Call("set_nonblocking", 0)
        /\ (sfd[c] \in reg /\ fdtab[sfd[c]] = c)
           => \E k \in CallsAt(c, "set_nonblocking") : ops[c][k].ret = 0
        /\ SetupFailed(c) =>
            /\ sst[c] = "closed"
            /\ ~WasRegistered(c)
            /\ fdtab[sfd[c]] # c
            /\ ops[c][Len(ops[c])] = Call("close", 0)
            /\ ops[c][Len(ops[c]) - 1].ret < 0
            /\ CallsAt(c, "read") \cup CallsAt(c, "write") = {}

\* One invocation of accept_connections took two pending connections: on the
\* first set_nonblocking failed and it was closed; the acceptor went on to
\* the second, which got the same descriptor number and is registered.
C16_Witness ==
    \E c, d \in Clients :
        /\ acc.took = <<c, d>>
        /\ why[c] = "nbfail"
        /\ SetupFailed(c)
        /\ sst[d] = "open"
        /\ sfd[d] = sfd[c]
        /\ sfd[d] \in reg

\* ------------------------------------------------------------------------
\* C17
\* ------------------------------------------------------------------------

\* C17: the dispatch of an event for the client connection c leaves every
\* other connection as it was (its open state, descriptor, registration,
\* bytes sent and read, call log, responses and place on the ready list),
\* leaves the listening socket open, registered and with the same queue,
\* removes at most c's descriptor from the interest list and adds none, and
\* the for-loop goes on to the next event of the batch or back to epoll_wait.
C17_DispatchTouchesOnlyItsHandle ==
    [][\A c \in Clients :
         DispatchOf(c) =>
            /\ \A d \in Clients \ {c} :
                /\ sst'[d] = sst[d]
                /\ sfd'[d] = sfd[d]
                /\ why'[d] = why[d]
                /\ rd'[d] = rd[d]
                /\ sent'[d] = sent[d]
                /\ cend'[d] = cend[d]
                /\ ops'[d] = ops[d]
                /\ parsed'[d] = parsed[d]
                /\ sresp'[d] = sresp[d]
                /\ sst[d] = "open" =>
                    /\ fdtab'[sfd[d]] = d
                    /\ sfd[d] \in reg' <=> sfd[d] \in reg
                    /\ InSeq(rdy', sfd[d]) <=> InSeq(rdy, sfd[d])
            /\ lopen' = lopen
            /\ lq' = lq
            /\ server_fd \in reg' <=> server_fd \in reg
            /\ InSeq(rdy', server_fd) <=> InSeq(rdy, server_fd)
            /\ reg' \subseteq reg
            /\ reg \ reg' \subseteq {sfd[c]}
            /\ IF idx < Len(batch)
               THEN pc' = "dispatch" /\ idx' = idx + 1 /\ batch' = batch
               ELSE pc' = "wait"]_vars

\* In a batch of two client events the first connection met a read error and
\* was torn down; the second, with unread bytes, is open and registered and
\* its event is the next to be dispatched.
C17_Witness ==
    \E c, d \in Clients :
        /\ c # d
        /\ pc = "dispatch"
        /\ idx = 2
        /\ batch[1].fd = sfd[c]
        /\ why[c] = "rderr"
        /\ batch[2].fd = sfd[d]
        /\ sst[d] = "open"
        /\ sfd[d] \in reg
        /\ sent[d] > rd[d]

\* ------------------------------------------------------------------------
\* C18
\* ------------------------------------------------------------------------

\* C18: while a batch is dispatched no descriptor occurs twice in it, and
\* every client event not dispatched yet names a descriptor that still
\* refers to the open connection it was reported for: it was not closed
\* earlier in the batch, and its number was not given to a connection
\* accepted since.
C18_BatchVisitsLiveHandlesOnce ==
    pc = "dispatch" =>
        /\ \A j, k \in 1..Len(batch) : batch[j].fd = batch[k].fd => j = k
        /\ \A k \in idx..Len(batch) :
            batch[k].fd # server_fd =>
                /\ batch[k].conn # 0
                /\ fdtab[batch[k].fd] = batch[k].conn
                /\ sst[batch[k].conn] = "open"

\* A batch of three events: the first closed connection a; the second, on
\* the listening descriptor, accepted connection c under a's descriptor
\* number; the third, for connection b, is about to be dispatched.
C18_Witness ==
    \E a, b, c \in Clients :
        /\ pc = "dispatch"
        /\ idx = 3
        /\ batch[1].conn = a
        /\ sst[a] = "closed"
        /\ batch[2].fd = server_fd
        /\ acc.took = <<c>>
        /\ sst[c] = "open"
        /\ sfd[c] = batch[1].fd
        /\ batch[3].conn = b
        /\ sst[b] = "open"

\* ------------------------------------------------------------------------
\* C19
\* ------------------------------------------------------------------------

\* s is a method, one space and a non-empty target, and ends there: no
\* space and no line terminator follows the target.
EndsAfterTarget(s) ==
    /\ Cardinality(Spaces(s)) = 1
    /\ ~HasEol(s)
    /\ \A k \in Spaces(s) : k > 1 /\ k < Len(s)

\* C19 (as claimed): when the bytes handed to the parser end right after the
\* target, parse_http reports a failure and the response is the 400 one.
C19_UnterminatedTargetIsParseFailure ==
    \A c \in Clients :
        (parsed[c] # <<>> /\ EndsAfterTarget(ReadBytes(c)))
        => /\ parsed[c][1] = NULL
           /\ StatusCode(sresp[c][1].wire) = 400

\* ------------------------------------------------------------------------
\* C20
\* ------------------------------------------------------------------------

\* The request text holds the bytes Connection: close.
AsksClose(text) ==
    \E i \in 1..(Len(text) - Len(ConnectionClose) + 1) :
        SubSeq(text, i, i + Len(ConnectionClose) - 1) = ConnectionClose

\* C20 (as claimed): every pass of cli_conn's loop that parsed a request
\* (and was not ended by a signal) sent one response, whose Connection
\* header is close exactly when the request text holds Connection: close;
\* after such a request the loop was left, after any other the handler is
\* back in its read or left the loop later on a timeout, end of stream or
\* read error; a parse failure sends nothing and ends the loop; and the
\* handler has returned exactly when it has closed the socket, once.
C20_KeepAliveLoop ==
    /\ \A k \in 1..Len(klog) :
        IF klog[k].req = NULL
        THEN /\ klog[k].resp = <<>>
             /\ k = Len(klog)
             /\ kpc = "returned"
             /\ kexit = "parse"
        ELSE (k = Len(klog) /\ kpc = "killed")
             \/ /\ Len(klog[k].resp) = 1
                /\ HeaderValues(klog[k].resp[1], "Connection") = {"close"}
                   <=> AsksClose(klog[k].text)
                /\ AsksClose(klog[k].text)
                   => k = Len(klog) /\ kpc = "returned" /\ kexit = "close"
                /\ (~AsksClose(klog[k].text) /\ k = Len(klog))
                   => kpc = "read" \/ kexit \in {"timeout", "eof", "rderr"}
    /\ kclosed <= 1
    /\ kpc = "returned" <=> kclosed = 1
    /\ kpc = "returned" => kexit \in {"close", "timeout", "eof", "rderr", "parse"}

\* ------------------------------------------------------------------------
\* C21
\* ------------------------------------------------------------------------

\* C21 (as claimed): as long as main is in its event loop the listening
\* socket is open and registered.
C21_ListenerStaysRegistered ==
    pc # "exited" => lopen /\ server_fd \in reg

\* ------------------------------------------------------------------------
\* C22
\* ------------------------------------------------------------------------

\* C22 (as claimed): a connection in the listen queue is eventually accepted,
\* after which it is registered or closed, whether or not another connection
\* arrives after it.
C22_QueuedIsEventuallyAccepted ==
    \A c \in Busy : InSeq(lq, c) ~> (sst[c] # "none")

\* ------------------------------------------------------------------------
\* C23
\* ------------------------------------------------------------------------

\* An event for connection c is on its way to the driver: its descriptor is
\* on the ready list, or in the part of the batch not dispatched yet.
EventPending(c) ==
    \/ InSeq(rdy, sfd[c])
    \/ /\ pc = "dispatch"
       /\ \E k \in idx..Len(batch) : batch[k].fd = sfd[c] /\ batch[k].conn = c

\* Connection c is open and registered and has bytes queued that the server
\* has not read.
OpenWithUnread(c) ==
    /\ sst[c] = "open"
    /\ sfd[c] \in reg
    /\ fdtab[sfd[c]] = c
    /\ sent[c] > rd[c]

====
